---- MODULE Spec2Model ----
(***************************************************************************)
(* Auth flow of daily-helper.                                              *)
(*                                                                         *)
(* Spec: the pinia auth store (frontend/src/stores/auth.ts), the GraphQL   *)
(* documents it sends (frontend/src/graphql/auth.graphql.ts) and the       *)
(* router's navigation guard (frontend/src/router/index.ts).  The server   *)
(* is the environment: every response the urql client can hand to the      *)
(* store is an input, drawn from the sets below.                           *)
(*                                                                         *)
(* SpecViews: the same store and guard, driven by the handlers of the      *)
(* login form, the create-user form and the user list with its edit        *)
(* dialog.                                                                 *)
(*                                                                         *)
(* SpecSession: the same store and guard, driven by the login form and by  *)
(* the Logout and navigation buttons of the dashboard and of the           *)
(* user-management view, against a server that keeps its session.          *)
(*                                                                         *)
(* SpecServer: the user table, the session store and the operations of     *)
(* the API, answering the browser's requests.  The backend's files are     *)
(* not part of the sources read here; the operations follow the design     *)
(* document, allUsers follows the resolver as the documentation prints it. *)
(*                                                                         *)
(* A step of the client is one synchronous run of the code between two     *)
(* awaits; a step of the server is one request answered.                   *)
(***************************************************************************)
EXTENDS Integers, FiniteSets, Sequences, TLC

VARIABLES
    currentUser,   \* auth store: ref<User | null>
    isLoading,     \* auth store: ref(false)
    pending,       \* requests in flight, per store action (and me() queries
                   \* whose navigation was superseded)
    nav,           \* the router's pending navigation
    route,         \* the router's current route ("start" = START_LOCATION)
    last,          \* the step that has just run: the response a store action
                   \* received, or the decision the guard made
    resolved,      \* the server has answered a me() check (with a user or
                   \* with none), and no login or logout has changed the
                   \* snapshot since
    loginIsLoading,   \* LoginView: const isLoading = ref(false)
    createIsLoading,  \* CreateUserForm: const isLoading = ref(false)
    editingUser,      \* UserList: ref<User | null>, the row the dialog edits
    editDialogVisible,  \* UserList: ref(false)
    loading,          \* UserList: const loading = ref(false)
    accounts,      \* server: the user table
    session,       \* server: the user id the browser's session cookie is
                   \* bound to, or NoSession
    reply          \* server: the request it has just answered, with its answer

clientVars == <<currentUser, isLoading, pending, nav, route, last, resolved>>
viewVars == <<loginIsLoading, createIsLoading, editingUser, editDialogVisible, loading>>
serverVars == <<accounts, session, reply>>

vars == <<clientVars, viewVars, serverVars>>

----------------------------------------------------------------------------
(* Bounds *)

MaxUserId == 1     \* user ids on the server: 1..MaxUserId
MaxPending == 2    \* requests in flight at once
MaxAccounts == 2   \* users the server's table can hold

----------------------------------------------------------------------------
(* JavaScript values *)

Null == [tag |-> "null"]
Absent == [tag |-> "undefined"]

\* JS truthiness of a value that is null, undefined or an object
Truthy(v) == v # Null /\ v # Absent

\* o?.f === true
FieldIsTrue(o, f) == f \in DOMAIN o /\ o[f] = TRUE

----------------------------------------------------------------------------
(* Users on the server, and the selection sets of the GraphQL documents.   *)
(* Of the fields of a user only id and the two role flags are kept: the    *)
(* store and the guard read no other field.                                *)

ServerUsers ==
    [id : 1..MaxUserId, isStaff : BOOLEAN, isSuperuser : BOOLEAN]

\* no user id: the session cookie resolves to no identity
NoSession == 0

\* the server has answered no request in the step that has just run
NoReply == [op |-> "none"]

\* The server answers a query with the fields its selection set names
Select(u, fields) == [f \in (fields \cap DOMAIN u) |-> u[f]]

LOGIN_MUTATION == {"id", "username", "email", "firstName", "lastName",
                   "isActive", "isStaff", "dateJoined", "createdAt", "updatedAt"}

REGISTER_MUTATION == {"id", "username", "email", "firstName", "lastName",
                      "isActive", "isStaff", "dateJoined", "createdAt", "updatedAt"}

ME_QUERY == {"id", "username", "email", "firstName", "lastName",
             "isActive", "isStaff", "dateJoined", "createdAt", "updatedAt"}

UPDATE_USER_MUTATION == {"id", "username", "email", "firstName", "lastName",
                         "isActive", "isStaff", "dateJoined", "createdAt", "updatedAt"}

----------------------------------------------------------------------------
(* What urqlClient.mutation(..).toPromise() / query(..).toPromise() can    *)
(* give the store.  origin is the server's record the user was selected    *)
(* from (Null when the payload carries no user).                           *)

ErrorMessages == {"", "[Network] Failed to fetch"}

\* the promise rejects: with an Error, or with something else
Thrown == {[kind |-> "throw", isError |-> b] : b \in BOOLEAN}

\* result.error is set
Failed == {[kind |-> "error", message |-> m] : m \in ErrorMessages}

\* no error, and result.data (or the field read from it) is undefined
NoData == {[kind |-> "nodata"]}

UserPayloads(fields) ==
    {[kind |-> "data", success |-> s, user |-> Select(su, fields), origin |-> su] :
        s \in BOOLEAN, su \in ServerUsers}
    \cup
    {[kind |-> "data", success |-> s, user |-> v, origin |-> Null] :
        s \in BOOLEAN, v \in {Null, Absent}}

LoginResults == Thrown \cup Failed \cup NoData \cup UserPayloads(LOGIN_MUTATION)
RegisterResults == Thrown \cup Failed \cup NoData \cup UserPayloads(REGISTER_MUTATION)
UpdateUserResults == Thrown \cup Failed \cup NoData \cup UserPayloads(UPDATE_USER_MUTATION)

LogoutResults ==
    Thrown \cup Failed \cup NoData \cup {[kind |-> "data", success |-> s] : s \in BOOLEAN}

\* result.error can come with partial data
MeResults ==
    Thrown
    \cup {[kind |-> "error", message |-> m, me |-> Absent, origin |-> Null] :
            m \in ErrorMessages}
    \cup {[kind |-> "error", message |-> "[GraphQL] partial", me |-> Select(su, ME_QUERY),
            origin |-> su] : su \in ServerUsers}
    \cup {[kind |-> "data", me |-> Select(su, ME_QUERY), origin |-> su] : su \in ServerUsers}
    \cup {[kind |-> "data", me |-> v, origin |-> Null] : v \in {Null, Absent}}

\* fetchAllUsers only hands the list to its caller: the list is not kept
AllUsersResults ==
    Thrown \cup Failed \cup {[kind |-> "data", allUsers |-> v] : v \in {"list", "absent"}}

----------------------------------------------------------------------------
(* The auth store *)

StoreOps == {"login", "register", "logout", "updateUser", "fetchAllUsers", "me"}

\* the actions that set isLoading
LoadingOps == {"login", "register", "logout", "updateUser"}

isAuthenticated == currentUser # Null
isAdmin == FieldIsTrue(currentUser, "isSuperuser")
isStaff == FieldIsTrue(currentUser, "isStaff")

InFlight == pending["login"] + pending["register"] + pending["logout"]
            + pending["updateUser"] + pending["fetchAllUsers"] + pending["me"]

Issue(op) == pending' = [pending EXCEPT ![op] = @ + 1]
Settle(op) == pending' = [pending EXCEPT ![op] = @ - 1]

\* resp is what the client handed to the store action, ret what the action
\* returned to its caller
NoEvent == [kind |-> "none"]
StoreEvent(op, r, ret) == [kind |-> "store", op |-> op, resp |-> r, ret |-> ret]

\* the payload as the caller sees it
Payload(r) ==
    IF "user" \in DOMAIN r
    THEN [success |-> r.success, message |-> "message of the server", user |-> r.user]
    ELSE [success |-> r.success, message |-> "message of the server"]

\* an error result that still carries a user
ErrorReturn_WithUser(r, fallback) ==
    [success |-> FALSE, message |-> IF r.message # "" THEN r.message ELSE fallback,
     user |-> [id |-> 1]]

\* the result of the branch `if (result.error)`
ErrorReturn(r, fallback) ==
    [success |-> FALSE, message |-> IF r.message # "" THEN r.message ELSE fallback]

\* a catch block that hands no result to the caller
CatchReturn_NoResult(isError) == Absent

\* the result of the catch block
CatchReturn(isError) ==
    [success |-> FALSE,
     message |-> IF isError THEN "message of the exception" ELSE "An error occurred"]

\* login and logout read payload.success: an undefined payload throws a
\* TypeError, which the catch block turns into a result
ReturnReadingPayload(r, fallback) ==
    CASE r.kind = "error" -> ErrorReturn(r, fallback)
      [] r.kind = "throw" -> CatchReturn(r.isError)
      [] r.kind = "nodata" -> CatchReturn(TRUE)
      [] OTHER -> Payload(r)

\* register and updateUser return the payload unread: an undefined payload
\* is returned as it is
ReturnPassingPayload(r, fallback) ==
    CASE r.kind = "error" -> ErrorReturn(r, fallback)
      [] r.kind = "throw" -> CatchReturn(r.isError)
      [] r.kind = "nodata" -> Absent
      [] OTHER -> Payload(r)

LoginReturn(r) == ReturnReadingPayload(r, "Login failed")
RegisterReturn(r) == ReturnPassingPayload(r, "Registration failed")
LogoutReturn(r) == ReturnReadingPayload(r, "Logout failed")
UpdateUserReturn(r) == ReturnPassingPayload(r, "Update failed")

\* fetchAllUsers: the list, or [] on any failure
AllUsersReturn(r) ==
    IF r.kind = "data" /\ r.allUsers = "list" THEN "list" ELSE "[]"

\* isLoading.value = true, and the request leaves
Call(op) ==
    /\ InFlight < MaxPending
    /\ isLoading' = TRUE
    /\ Issue(op)

\* The synchronous start of a store action that sets isLoading
\* (login, register, logout, updateUser), up to its await
StartLoading(op) ==
    /\ Call(op)
    /\ last' = NoEvent
    /\ UNCHANGED <<currentUser, nav, route, resolved>>

login == StartLoading("login")
register == StartLoading("register")
logout == StartLoading("logout")
updateUser == StartLoading("updateUser")

fetchAllUsers ==
    /\ InFlight < MaxPending
    /\ Issue("fetchAllUsers")
    /\ last' = NoEvent
    /\ UNCHANGED <<currentUser, isLoading, nav, route, resolved>>

\* login that clears the snapshot when it fails
LoginUser_ClearsOnFailure(r) ==
    IF r.kind = "data" /\ r.success /\ Truthy(r.user) THEN r.user
    ELSE IF r.kind = "data" /\ r.success THEN currentUser
    ELSE Null

\* login that keeps a snapshot it already holds
LoginUser_KeepsCached(r) ==
    IF r.kind = "data" /\ r.success /\ Truthy(r.user) /\ currentUser = Null
    THEN r.user ELSE currentUser

\* login that does not check payload.user
LoginUser_NoUserCheck(r) ==
    IF r.kind = "data" /\ r.success THEN r.user ELSE currentUser

\* login, after the await: a client error and an exception leave the
\* snapshot; a payload with success and a user replaces it
LoginUser(r) ==
    IF r.kind = "data" /\ r.success /\ Truthy(r.user) THEN r.user ELSE currentUser

\* what login does to the store between its await and its return
loginReturns(r) ==
    /\ pending["login"] > 0
    /\ currentUser' = LoginUser(r)
    /\ isLoading' = FALSE
    /\ last' = StoreEvent("login", r, LoginReturn(r))
    /\ resolved' = (resolved /\ currentUser' = currentUser)

loginResolve(r) ==
    /\ loginReturns(r)
    /\ Settle("login")
    /\ UNCHANGED <<nav, route>>

\* register that caches the user it created, as login does
RegisterUser_Caches(r) ==
    IF r.kind = "data" /\ r.success /\ Truthy(r.user) THEN r.user ELSE currentUser

\* register, after the await: the payload is returned, the snapshot is not touched
RegisterUser(r) == currentUser

registerResolve(r) ==
    /\ pending["register"] > 0
    /\ currentUser' = RegisterUser(r)
    /\ isLoading' = FALSE
    /\ Settle("register")
    /\ last' = StoreEvent("register", r, RegisterReturn(r))
    /\ UNCHANGED <<nav, route, resolved>>

\* logout that clears the snapshot when it fails and keeps it when it succeeds
LogoutUser_ClearsOnFailure(r) ==
    IF r.kind = "data" /\ r.success THEN currentUser ELSE Null

\* logout that does not clear the snapshot
LogoutUser_Keeps(r) == currentUser

\* logout, after the await
LogoutUser(r) ==
    IF r.kind = "data" /\ r.success THEN Null ELSE currentUser

\* what logout does to the store between its await and its return
logoutReturns(r) ==
    /\ pending["logout"] > 0
    /\ currentUser' = LogoutUser(r)
    /\ isLoading' = FALSE
    /\ last' = StoreEvent("logout", r, LogoutReturn(r))
    /\ resolved' = (resolved /\ currentUser' = currentUser)

logoutResolve(r) ==
    /\ logoutReturns(r)
    /\ Settle("logout")
    /\ UNCHANGED <<nav, route>>

\* what updateUser does to the store between its await and its return
updateUserReturns(r) ==
    /\ pending["updateUser"] > 0
    /\ isLoading' = FALSE
    /\ last' = StoreEvent("updateUser", r, UpdateUserReturn(r))
    /\ UNCHANGED <<currentUser, resolved>>

updateUserResolve(r) ==
    /\ updateUserReturns(r)
    /\ Settle("updateUser")
    /\ UNCHANGED <<nav, route>>

fetchAllUsersResolve(r) ==
    /\ pending["fetchAllUsers"] > 0
    /\ Settle("fetchAllUsers")
    /\ last' = StoreEvent("fetchAllUsers", r, AllUsersReturn(r))
    /\ UNCHANGED <<currentUser, isLoading, nav, route, resolved>>

\* fetchCurrentUser that keeps the cached snapshot when the query fails
FetchedUser_KeepsOnFailure(r) ==
    IF r.kind = "data" /\ Truthy(r.me) THEN r.me ELSE currentUser

\* fetchCurrentUser, after the await
FetchedUser(r) ==
    IF r.kind = "data" /\ Truthy(r.me) THEN r.me ELSE Null

----------------------------------------------------------------------------
(* The router *)

RouteNames == {"login", "dashboard", "users"}

\* a path no route record matches has empty meta
Targets == RouteNames \cup {"unmatched"}

Meta(to) ==
    CASE to = "login" -> {"requiresGuest"}
      [] to = "dashboard" -> {"requiresAuth"}
      [] to = "users" -> {"requiresAuth", "requiresAdmin"}
      [] OTHER -> {}

Idle == [pc |-> "idle"]

\* a guard that never fetches
NeedsFetch_Never == FALSE

\* a guard that fetches whether or not a snapshot is cached
NeedsFetch_IgnoresCache == ~isLoading

\* beforeEach: whether the guard awaits fetchCurrentUser() first
NeedsFetch == ~Truthy(currentUser) /\ ~isLoading

\* a guard without the requiresGuest branch
GuardDecision_NoGuestBranch(to) ==
    IF "requiresAuth" \in Meta(to) /\ ~isAuthenticated THEN "login"
    ELSE IF "requiresAdmin" \in Meta(to) /\ ~isAdmin THEN "dashboard"
    ELSE "next"

\* a guard that sends a visitor who is no admin from users to login
GuardDecision_AdminToLogin(to) ==
    IF "requiresAuth" \in Meta(to) /\ ~isAuthenticated THEN "login"
    ELSE IF "requiresGuest" \in Meta(to) /\ isAuthenticated THEN "dashboard"
    ELSE IF "requiresAdmin" \in Meta(to) /\ ~isAdmin THEN "login"
    ELSE "next"

\* a guard without the requiresAuth branch
GuardDecision_NoAuthBranch(to) ==
    IF "requiresGuest" \in Meta(to) /\ isAuthenticated THEN "dashboard"
    ELSE IF "requiresAdmin" \in Meta(to) /\ ~isAdmin THEN "dashboard"
    ELSE "next"

\* beforeEach: what the guard passes to next(); "next" is next()
GuardDecision(to) ==
    IF "requiresAuth" \in Meta(to) /\ ~isAuthenticated THEN "login"
    ELSE IF "requiresGuest" \in Meta(to) /\ isAuthenticated THEN "dashboard"
    ELSE IF "requiresAdmin" \in Meta(to) /\ ~isAdmin THEN "dashboard"
    ELSE "next"

\* a decision of the guard: awaited tells whether it awaited me(), resp is
\* what me() answered
NoResponse == [kind |-> "none"]
GuardEvent(to, d, awaited, r) ==
    [kind |-> "guard", to |-> to, decision |-> d, awaited |-> awaited, resp |-> r]

\* The router acts on what the guard passed to next(): it confirms the
\* navigation, or starts the navigation to the redirect's target
Resolve(to, d) ==
    IF d = "next"
    THEN /\ route' = to
         /\ nav' = Idle
    ELSE /\ route' = route
         /\ nav' = [pc |-> "redirect", to |-> d]

\* The guard runs for a navigation to `to`, up to its await or its next()
Enter(to) ==
    IF NeedsFetch
    THEN /\ nav' = [pc |-> "awaitMe", to |-> to]
         /\ last' = NoEvent
         /\ UNCHANGED <<currentUser, isLoading, route, resolved>>
    ELSE /\ Resolve(to, GuardDecision(to))
         /\ last' = GuardEvent(to, GuardDecision(to), FALSE, NoResponse)
         /\ UNCHANGED <<currentUser, isLoading, resolved>>

\* the router runs no guard for a navigation to the route it is on
Duplicated(to) == to \in RouteNames /\ to = route

\* router.push / the initial navigation: a navigation that is still pending
\* is superseded; its guard's me() query stays in flight
navigate(to) ==
    /\ nav.pc # "redirect"
    /\ ~Duplicated(to)
    /\ IF nav.pc = "awaitMe"
       THEN InFlight < MaxPending /\ Issue("me")
       ELSE UNCHANGED pending
    /\ Enter(to)

\* the navigation a redirect started reaches the guard
redirected ==
    /\ nav.pc = "redirect"
    /\ UNCHANGED pending
    /\ IF Duplicated(nav.to)
       THEN /\ nav' = Idle
            /\ last' = NoEvent
            /\ UNCHANGED <<currentUser, isLoading, route, resolved>>
       ELSE Enter(nav.to)

\* me() answers for the pending navigation: fetchCurrentUser sets the
\* snapshot, then the guard decides
meResolve(r) ==
    /\ nav.pc = "awaitMe"
    /\ currentUser' = FetchedUser(r)
    /\ \E to \in Targets :
          /\ to = nav.to
          /\ Resolve(to, GuardDecision(to)')
          /\ last' = GuardEvent(to, GuardDecision(to)', TRUE, r)
    /\ resolved' = (resolved \/ r.kind = "data")
    /\ UNCHANGED <<isLoading, pending>>

\* me() answers for a superseded navigation: fetchCurrentUser sets the
\* snapshot; the router drops what that guard passes to next()
staleMeResolve(r) ==
    /\ pending["me"] > 0
    /\ currentUser' = FetchedUser(r)
    /\ Settle("me")
    /\ last' = StoreEvent("me", r, Absent)
    /\ resolved' = (resolved \/ r.kind = "data")
    /\ UNCHANGED <<isLoading, nav, route>>

----------------------------------------------------------------------------

\* the views are not mounted and the server is not looked at
ViewsAtRest ==
    /\ loginIsLoading = FALSE
    /\ createIsLoading = FALSE
    /\ editingUser = Null
    /\ editDialogVisible = FALSE
    /\ loading = FALSE

ServerAtRest ==
    /\ accounts = <<>>
    /\ session = NoSession
    /\ reply = NoReply

Init ==
    /\ currentUser = Null
    /\ isLoading = FALSE
    /\ pending = [op \in StoreOps |-> 0]
    /\ nav = Idle
    /\ route = "start"
    /\ last = NoEvent
    /\ resolved = FALSE
    /\ ViewsAtRest
    /\ ServerAtRest

\* the store and the router, called from anywhere, against any server
Elsewhere == UNCHANGED <<viewVars, serverVars>>

Next ==
    \/ login /\ Elsewhere
    \/ register /\ Elsewhere
    \/ logout /\ Elsewhere
    \/ updateUser /\ Elsewhere
    \/ fetchAllUsers /\ Elsewhere
    \/ \E r \in LoginResults : loginResolve(r) /\ Elsewhere
    \/ \E r \in RegisterResults : registerResolve(r) /\ Elsewhere
    \/ \E r \in LogoutResults : logoutResolve(r) /\ Elsewhere
    \/ \E r \in UpdateUserResults : updateUserResolve(r) /\ Elsewhere
    \/ \E r \in AllUsersResults : fetchAllUsersResolve(r) /\ Elsewhere
    \/ \E to \in Targets : navigate(to) /\ Elsewhere
    \/ redirected /\ Elsewhere
    \/ \E r \in MeResults : meResolve(r) /\ Elsewhere
    \/ \E r \in MeResults : staleMeResolve(r) /\ Elsewhere

Spec == Init /\ [][Next]_vars

----------------------------------------------------------------------------
(* The views: the login form (views/LoginView.vue), the create-user form   *)
(* (components/users/CreateUserForm.vue) and the user list with its edit   *)
(* dialog (components/users/UserList.vue), the dashboard                   *)
(* (views/DashboardView.vue) and the user-management view                  *)
(* (views/UserManagementView.vue).  One instance of each is                *)
(* mounted.  A handler's run after its await is one step with the store    *)
(* action's return: no task of the event loop runs between the two.        *)

ALL_USERS_QUERY == {"id", "username", "email", "firstName", "lastName",
                    "isActive", "isStaff", "dateJoined", "createdAt", "updatedAt"}

\* the rows the user table can show: users.value, as allUsers returned it
Rows == {Select(su, ALL_USERS_QUERY) : su \in ServerUsers}

\* a step of a view: input is what the handler passed to the store action
ViewEvent(handler, input) == [kind |-> "view", handler |-> handler, input |-> input]

\* PrimeVue's Button is disabled while its loading prop is true
SignInEnabled == ~loginIsLoading
CreateEnabled == ~createIsLoading
RefreshEnabled == ~loading

\* the row's edit button: :disabled="data.isStaff"; the dialog is modal
EditEnabled(row) == ~FieldIsTrue(row, "isStaff") /\ ~editDialogVisible

\* "Save Changes" carries no loading and no disabled binding: it can be
\* clicked whenever the dialog shows it
SaveEnabled == editDialogVisible

\* router.push(..) from a handler whose store action `op` has just returned:
\* the navigation reaches the guard in a later step; a navigation still
\* awaiting me() is superseded, its query stays in flight
Push(to, op) ==
    /\ nav' = [pc |-> "redirect", to |-> to]
    /\ route' = route
    /\ pending' = [pending EXCEPT ![op] = @ - 1,
                                  !["me"] = IF nav.pc = "awaitMe" THEN @ + 1 ELSE @]

\* result.success, read by a handler from what the store action returned;
\* reading it from undefined throws, which ends the handler
Succeeded(ret) == ret # Absent /\ ret.success

\* LoginView.onSubmit, up to its await
loginSubmit ==
    /\ SignInEnabled
    /\ loginIsLoading' = TRUE
    /\ login
    /\ UNCHANGED <<createIsLoading, editingUser, editDialogVisible, loading>>

\* LoginView.onSubmit, after its await
loginSubmitted(r) ==
    /\ loginReturns(r)
    /\ loginIsLoading' = FALSE
    /\ IF Succeeded(LoginReturn(r))
       THEN Push("dashboard", "login")
       ELSE Settle("login") /\ UNCHANGED <<nav, route>>
    /\ UNCHANGED <<createIsLoading, editingUser, editDialogVisible, loading>>

\* the userType prop of the create-user tabs of UserManagementView
UserTypes == {"admin", "staff", "normal"}

\* what the create-user form can hold when it is submitted; firstName stands
\* for the two optional text fields, the required ones are not told apart
CreateForms == [firstName : {"", "firstName"}, isActive : BOOLEAN]

\* `values.firstName || undefined`
OrUndefined(text) == IF text = "" THEN Absent ELSE text

\* a form whose admin tab does not set the staff flag
RegisterInput_AdminNotStaff(userType, values) ==
    [username |-> "username", email |-> "email", password |-> "password",
     firstName |-> OrUndefined(values.firstName),
     isSuperuser |-> userType = "admin",
     isStaff |-> userType = "staff",
     isActive |-> values.isActive]

\* the RegisterInput onSubmit builds
RegisterInput(userType, values) ==
    [username |-> "username", email |-> "email", password |-> "password",
     firstName |-> OrUndefined(values.firstName),
     isSuperuser |-> userType = "admin",
     isStaff |-> userType = "admin" \/ userType = "staff",
     isActive |-> values.isActive]

\* a submission of the create-user form of the tab `userType`
CreateEvent(userType, input) ==
    [kind |-> "view", handler |-> "onSubmit", userType |-> userType, input |-> input]

\* CreateUserForm.onSubmit, up to its await
createSubmit(userType, values) ==
    /\ CreateEnabled
    /\ createIsLoading' = TRUE
    /\ Call("register")
    /\ last' = CreateEvent(userType, RegisterInput(userType, values))
    /\ UNCHANGED <<currentUser, nav, route, resolved>>
    /\ UNCHANGED <<loginIsLoading, editingUser, editDialogVisible, loading>>

\* CreateUserForm.onSubmit, after its await
createSubmitted(r) ==
    /\ registerResolve(r)
    /\ createIsLoading' = FALSE
    /\ UNCHANGED <<loginIsLoading, editingUser, editDialogVisible, loading>>

\* UserList.loadUsers, up to its await: on mount and from the Refresh button
loadUsers ==
    /\ RefreshEnabled
    /\ loading' = TRUE
    /\ fetchAllUsers
    /\ UNCHANGED <<loginIsLoading, createIsLoading, editingUser, editDialogVisible>>

\* UserList.loadUsers, after its await
usersLoaded(r) ==
    /\ fetchAllUsersResolve(r)
    /\ loading' = FALSE
    /\ UNCHANGED <<loginIsLoading, createIsLoading, editingUser, editDialogVisible>>

openEditDialog(row) ==
    /\ EditEnabled(row)
    /\ editingUser' = row
    /\ editDialogVisible' = TRUE
    /\ last' = NoEvent
    /\ UNCHANGED <<currentUser, isLoading, pending, nav, route, resolved>>
    /\ UNCHANGED <<loginIsLoading, createIsLoading, loading>>

\* the Cancel button
closeEditDialog ==
    /\ editDialogVisible
    /\ editDialogVisible' = FALSE
    /\ editingUser' = Null
    /\ last' = NoEvent
    /\ UNCHANGED <<currentUser, isLoading, pending, nav, route, resolved>>
    /\ UNCHANGED <<loginIsLoading, createIsLoading, loading>>

\* the dialog's own close icon: v-model:visible
hideEditDialog ==
    /\ editDialogVisible
    /\ editDialogVisible' = FALSE
    /\ last' = NoEvent
    /\ UNCHANGED <<currentUser, isLoading, pending, nav, route, resolved>>
    /\ UNCHANGED <<loginIsLoading, createIsLoading, editingUser, loading>>

\* what the dialog's checkboxes can hold
EditForms == [isStaff : BOOLEAN, isActive : BOOLEAN]

\* saveUser that also sends the superuser flag
SaveUserInput_WithSuperuser(row, form) ==
    [userId |-> row.id, email |-> "email", firstName |-> "firstName",
     lastName |-> "lastName", isStaff |-> form.isStaff, isSuperuser |-> form.isStaff,
     isActive |-> form.isActive]

\* the UpdateUserInput saveUser builds; the text fields are not told apart
SaveUserInput(row, form) ==
    [userId |-> row.id, email |-> "email", firstName |-> "firstName",
     lastName |-> "lastName", isStaff |-> form.isStaff, isActive |-> form.isActive]

\* UserList.saveUser, up to its await
saveUser(form) ==
    /\ SaveEnabled
    /\ Truthy(editingUser)
    /\ Call("updateUser")
    /\ last' = ViewEvent("saveUser", SaveUserInput(editingUser, form))
    /\ UNCHANGED <<currentUser, nav, route, resolved>>
    /\ UNCHANGED viewVars

\* UserList.saveUser, after its await: on success closeEditDialog() and
\* loadUsers(), which is called whether or not a load is running
saveUserDone(r) ==
    /\ updateUserReturns(r)
    /\ IF Succeeded(UpdateUserReturn(r))
       THEN /\ editDialogVisible' = FALSE
            /\ editingUser' = Null
            /\ loading' = TRUE
            /\ pending' = [pending EXCEPT !["updateUser"] = @ - 1,
                                          !["fetchAllUsers"] = @ + 1]
       ELSE /\ Settle("updateUser")
            /\ UNCHANGED <<editingUser, editDialogVisible, loading>>
    /\ UNCHANGED <<nav, route, loginIsLoading, createIsLoading>>

\* DashboardView.handleLogout, up to its await; the Logout button carries no
\* loading and no disabled binding
dashboardLogout ==
    /\ logout
    /\ UNCHANGED viewVars

\* DashboardView.handleLogout, after its await: router.push on success only
dashboardLoggedOut(r) ==
    /\ logoutReturns(r)
    /\ IF Succeeded(LogoutReturn(r))
       THEN Push("login", "logout")
       ELSE Settle("logout") /\ UNCHANGED <<nav, route>>
    /\ UNCHANGED viewVars

\* UserManagementView.handleLogout, up to its await
usersLogout ==
    /\ logout
    /\ UNCHANGED viewVars

\* UserManagementView.handleLogout, after its await: the result is not read
usersLoggedOut(r) ==
    /\ logoutReturns(r)
    /\ Push("login", "logout")
    /\ UNCHANGED viewVars

\* DashboardView.goToUserManagement
goToUserManagement ==
    /\ navigate("users")
    /\ UNCHANGED viewVars

\* UserManagementView.goToDashboard
goToDashboard ==
    /\ navigate("dashboard")
    /\ UNCHANGED viewVars

\* The session of the browser's cookie as the server's answers tell it: a
\* request is handled when it is answered, and a request that fails has not
\* reached the server; the session's TTL outlasts the run.  login binds the
\* session to the user it answers with, logout destroys it.
SessionAfter(op, r) ==
    IF r.kind # "data" \/ ~r.success THEN session
    ELSE IF op = "login" /\ r.origin # Null THEN r.origin.id
    ELSE IF op = "logout" THEN NoSession
    ELSE session

\* the server answers op with r
Answers(op, r) ==
    /\ session' = SessionAfter(op, r)
    /\ UNCHANGED <<accounts, reply>>

\* me resolves the session: the user it is bound to, or null
AnswersMe(r) ==
    /\ r.kind = "data"
        => IF session = NoSession
           THEN r.origin = Null
           ELSE r.origin # Null /\ r.origin.id = session
    /\ UNCHANGED serverVars

ViewsNext ==
    \/ loginSubmit /\ UNCHANGED serverVars
    \/ \E r \in LoginResults : loginSubmitted(r) /\ UNCHANGED serverVars
    \/ \E userType \in UserTypes, values \in CreateForms :
          createSubmit(userType, values) /\ UNCHANGED serverVars
    \/ \E r \in RegisterResults : createSubmitted(r) /\ UNCHANGED serverVars
    \/ loadUsers /\ UNCHANGED serverVars
    \/ \E r \in AllUsersResults : usersLoaded(r) /\ UNCHANGED serverVars
    \/ \E row \in Rows : openEditDialog(row) /\ UNCHANGED serverVars
    \/ closeEditDialog /\ UNCHANGED serverVars
    \/ hideEditDialog /\ UNCHANGED serverVars
    \/ \E form \in EditForms : saveUser(form) /\ UNCHANGED serverVars
    \/ \E r \in UpdateUserResults : saveUserDone(r) /\ UNCHANGED serverVars
    \/ redirected /\ Elsewhere
    \/ \E r \in MeResults : meResolve(r) /\ Elsewhere
    \/ \E r \in MeResults : staleMeResolve(r) /\ Elsewhere

\* the store and the router as the views drive them
SpecViews == Init /\ [][ViewsNext]_vars

\* signing in and out: the login form, the Logout buttons and the navigation
\* buttons of the dashboard and of the user-management view, against a
\* server that keeps its session
SessionNext ==
    \/ loginSubmit /\ UNCHANGED serverVars
    \/ \E r \in LoginResults : loginSubmitted(r) /\ Answers("login", r)
    \/ dashboardLogout /\ UNCHANGED serverVars
    \/ \E r \in LogoutResults : dashboardLoggedOut(r) /\ Answers("logout", r)
    \/ usersLogout /\ UNCHANGED serverVars
    \/ \E r \in LogoutResults : usersLoggedOut(r) /\ Answers("logout", r)
    \/ goToUserManagement /\ UNCHANGED serverVars
    \/ goToDashboard /\ UNCHANGED serverVars
    \/ redirected /\ Elsewhere
    \/ \E r \in MeResults : meResolve(r) /\ AnswersMe(r) /\ UNCHANGED viewVars
    \/ \E r \in MeResults : staleMeResolve(r) /\ AnswersMe(r) /\ UNCHANGED viewVars

SpecSession == Init /\ [][SessionNext]_vars

----------------------------------------------------------------------------
(* The server: the user table, the session store, the credential verifier  *)
(* and the operations of the API.  A step is one request of the browser    *)
(* answered by the server, told as the caller of the store action sees it: *)
(* resp is what the GraphQL client hands to the store, ret what the store  *)
(* action returns.                                                         *)

AccountIds == 1..MaxAccounts

\* the server's record of a user; the username of account id is id
Flags == [isActive : BOOLEAN, isStaff : BOOLEAN, isSuperuser : BOOLEAN]

\* users are created and never deleted: ids are given out in order
Tables == UNION {[1..k -> Flags] : k \in AccountIds}

\* usernames a request can name: MaxAccounts + 1 is never registered
Usernames == 1..(MaxAccounts + 1)

\* the password is the account's own, or it is not
Passwords == {"correct", "wrong"}

Exists(id) == id \in DOMAIN accounts

RecordIn(table, id) ==
    [id |-> id, isActive |-> table[id].isActive, isStaff |-> table[id].isStaff,
     isSuperuser |-> table[id].isSuperuser]

Record(id) == RecordIn(accounts, id)

\* the identity the session cookie of the request resolves to
Authenticated == session # NoSession
CallerIs(flag) == Authenticated /\ accounts[session][flag]

\* an AuthResult with success=true and the user's snapshot
Granted(u, fields, message) ==
    [kind |-> "data", success |-> TRUE, message |-> message,
     user |-> Select(u, fields), origin |-> u]

\* an AuthResult with success=false: no user
Refused(message) ==
    [kind |-> "data", success |-> FALSE, message |-> message,
     user |-> Null, origin |-> Null]

\* Credential Verifier
Verify(username, password) ==
    IF ~Exists(username) THEN "InvalidCredentials"
    ELSE IF password # "correct" THEN "InvalidCredentials"
    ELSE IF ~accounts[username].isActive THEN "AccountInactive"
    ELSE "Verified"

\* a login that tells an unknown username from a wrong password
LoginFailure_NamesCause(username, password) ==
    Refused(IF Exists(username) THEN "Wrong password" ELSE "No such user")

\* what login answers when the verifier fails, whatever the failure
LoginFailure(username, password) == Refused("Invalid username or password")

\* a login that answers success without creating a session
LoginOutcome_NoSession(username, password) ==
    IF Verify(username, password) = "Verified"
    THEN [resp |-> Granted(Record(username), LOGIN_MUTATION, "Login successful"),
          session |-> session]
    ELSE [resp |-> LoginFailure(username, password), session |-> session]

\* login: the answer, and the identity the session is bound to afterwards
LoginOutcome(username, password) ==
    IF Verify(username, password) = "Verified"
    THEN [resp |-> Granted(Record(username), LOGIN_MUTATION, "Login successful"),
          session |-> username]
    ELSE [resp |-> LoginFailure(username, password), session |-> session]

serveLogin(username, password) ==
    /\ session' = LoginOutcome(username, password).session
    /\ reply' = [op |-> "login", caller |-> session, username |-> username,
                 password |-> password,
                 resp |-> LoginOutcome(username, password).resp,
                 ret |-> LoginReturn(LoginOutcome(username, password).resp)]
    /\ UNCHANGED accounts

\* a logout that refuses when no session is active
LogoutAnswer_NeedsSession ==
    [kind |-> "data", success |-> Authenticated, message |-> "Logout"]

\* logout answers success whether or not a session is active
LogoutAnswer == [kind |-> "data", success |-> TRUE, message |-> "Logout"]

serveLogout ==
    /\ session' = NoSession
    /\ reply' = [op |-> "logout", caller |-> session, resp |-> LogoutAnswer,
                 ret |-> LogoutReturn(LogoutAnswer)]
    /\ UNCHANGED accounts

\* me: the user the session resolves to, or null
MeAnswer ==
    IF Authenticated
    THEN [kind |-> "data", me |-> Select(Record(session), ME_QUERY),
          origin |-> Record(session)]
    ELSE [kind |-> "data", me |-> Null, origin |-> Null]

serveMe ==
    /\ reply' = [op |-> "me", caller |-> session, resp |-> MeAnswer]
    /\ UNCHANGED <<accounts, session>>

\* the session's TTL runs out
sessionExpires ==
    /\ Authenticated
    /\ session' = NoSession
    /\ reply' = NoReply
    /\ UNCHANGED accounts

\* allUsers that lists superusers too
all_users_KeepsSuperusers ==
    IF ~CallerIs("isStaff")
    THEN {}
    ELSE {Record(id) : id \in DOMAIN accounts}

\* allUsers that answers any caller
all_users_NoStaffCheck ==
    {Record(id) : id \in {i \in DOMAIN accounts : ~accounts[i].isSuperuser}}

\* the allUsers resolver: [] unless the caller is authenticated and staff,
\* else User.objects.filter(is_superuser=False)
all_users ==
    IF ~CallerIs("isStaff")
    THEN {}
    ELSE {Record(id) : id \in {i \in DOMAIN accounts : ~accounts[i].isSuperuser}}

serveAllUsers ==
    /\ reply' = [op |-> "allUsers", caller |-> session, result |-> all_users,
                 resp |-> [kind |-> "data",
                           allUsers |-> {Select(u, ALL_USERS_QUERY) : u \in all_users}]]
    /\ UNCHANGED <<accounts, session>>

\* valid: the input passes the server's validation (unique username and
\* email, password length)
RegisterInputs ==
    [isStaff : BOOLEAN, isSuperuser : BOOLEAN, isActive : BOOLEAN, valid : BOOLEAN]

\* creating an admin requires a superuser, creating anyone else requires staff
RegisterAllowed(input) ==
    IF input.isSuperuser THEN CallerIs("isSuperuser") ELSE CallerIs("isStaff")

serveRegister(input) ==
    /\ IF RegisterAllowed(input) /\ input.valid
       THEN /\ Len(accounts) < MaxAccounts
            /\ accounts' = Append(accounts, [isActive |-> input.isActive,
                                             isStaff |-> input.isStaff,
                                             isSuperuser |-> input.isSuperuser])
            /\ \E r \in {Granted(RecordIn(accounts', Len(accounts) + 1),
                                 REGISTER_MUTATION, "User created")} :
                  reply' = [op |-> "register", caller |-> session, input |-> input,
                            resp |-> r, ret |-> RegisterReturn(r)]
       ELSE /\ accounts' = accounts
            /\ \E r \in {Refused(IF RegisterAllowed(input) THEN "Conflict"
                                 ELSE "Forbidden")} :
                  reply' = [op |-> "register", caller |-> session, input |-> input,
                            resp |-> r, ret |-> RegisterReturn(r)]
    /\ UNCHANGED session

FlagNames == {"isStaff", "isActive", "isSuperuser"}

\* an UpdateUserInput: userId, and any of the optional flags; of the inputs
\* that carry isSuperuser those that ask for the flag are kept
UpdateUserInputs ==
    {("userId" :> id) @@ f :
        id \in Usernames,
        f \in {g \in UNION {[S -> BOOLEAN] : S \in SUBSET FlagNames} :
                  "isSuperuser" \in DOMAIN g => g.isSuperuser}}

\* updateUser that lets a superuser's record be changed
UpdateDenied_AllowsSuperuserTarget(input) ==
    \/ ~CallerIs("isStaff")
    \/ ~Exists(input.userId)

\* updateUser is denied unless the caller is staff and the target exists and
\* is not a superuser
UpdateDenied(input) ==
    \/ ~CallerIs("isStaff")
    \/ ~Exists(input.userId)
    \/ accounts[input.userId].isSuperuser

\* the fields present in the input are applied, the superuser flag never
Updated(account, input) ==
    [isStaff |-> IF "isStaff" \in DOMAIN input THEN input.isStaff ELSE account.isStaff,
     isActive |-> IF "isActive" \in DOMAIN input THEN input.isActive ELSE account.isActive,
     isSuperuser |-> account.isSuperuser]

\* via: "saveUser" when the edit dialog built the input, "api" otherwise;
\* before: the user table as the request found it
serveUpdateUser(input, via) ==
    /\ IF UpdateDenied(input)
       THEN /\ accounts' = accounts
            /\ \E r \in {Refused("Forbidden")} :
                  reply' = [op |-> "updateUser", caller |-> session, via |-> via,
                            input |-> input, before |-> accounts,
                            resp |-> r, ret |-> UpdateUserReturn(r)]
       ELSE /\ accounts' = [accounts EXCEPT
                               ![input.userId] = Updated(accounts[input.userId], input)]
            /\ \E r \in {Granted(RecordIn(accounts', input.userId),
                                 UPDATE_USER_MUTATION, "User updated")} :
                  reply' = [op |-> "updateUser", caller |-> session, via |-> via,
                            input |-> input, before |-> accounts,
                            resp |-> r, ret |-> UpdateUserReturn(r)]
    /\ UNCHANGED session

\* the rows whose edit button is enabled
EditableRows == {row \in Rows : ~FieldIsTrue(row, "isStaff")}

\* the edit dialog's request reaches the server
serveSaveUser(row, form) == serveUpdateUser(SaveUserInput(row, form), "saveUser")

ReturnOf(op, r) ==
    CASE op = "login" -> LoginReturn(r)
      [] op = "register" -> RegisterReturn(r)
      [] op = "logout" -> LogoutReturn(r)
      [] op = "updateUser" -> UpdateUserReturn(r)

\* the request does not reach the server, or the answer carries no data
requestFails(op, r) ==
    /\ reply' = [op |-> op, caller |-> session, resp |-> r, ret |-> ReturnOf(op, r)]
    /\ UNCHANGED <<accounts, session>>

InitServer ==
    /\ currentUser = Null
    /\ isLoading = FALSE
    /\ pending = [op \in StoreOps |-> 0]
    /\ nav = Idle
    /\ route = "start"
    /\ last = NoEvent
    /\ resolved = FALSE
    /\ ViewsAtRest
    /\ accounts \in Tables
    /\ session = NoSession
    /\ reply = NoReply

ServerNext ==
    \/ \E username \in Usernames, password \in Passwords :
          serveLogin(username, password) /\ UNCHANGED <<clientVars, viewVars>>
    \/ serveLogout /\ UNCHANGED <<clientVars, viewVars>>
    \/ serveMe /\ UNCHANGED <<clientVars, viewVars>>
    \/ sessionExpires /\ UNCHANGED <<clientVars, viewVars>>
    \/ serveAllUsers /\ UNCHANGED <<clientVars, viewVars>>
    \/ \E input \in RegisterInputs :
          serveRegister(input) /\ UNCHANGED <<clientVars, viewVars>>
    \/ \E input \in UpdateUserInputs :
          serveUpdateUser(input, "api") /\ UNCHANGED <<clientVars, viewVars>>
    \/ \E row \in EditableRows, form \in EditForms :
          serveSaveUser(row, form) /\ UNCHANGED <<clientVars, viewVars>>
    \/ \E op \in LoadingOps, r \in Thrown \cup Failed \cup NoData :
          requestFails(op, r) /\ UNCHANGED <<clientVars, viewVars>>

\* the browser's requests against the server
SpecServer == InitServer /\ [][ServerNext]_vars

----------------------------------------------------------------------------
(* Properties *)

StoreStep(op) == last.kind = "store" /\ last.op = op
GuardStep == last.kind = "guard"

\* the store action that has just run received a payload with success=true and a user
SucceededWithUser(op) ==
    /\ StoreStep(op)
    /\ last.resp.kind = "data"
    /\ last.resp.success
    /\ Truthy(last.resp.user)

\* C1: when login receives a payload with success=true and a user, currentUser
\* is that user and isAuthenticated is true once login has resolved, whatever
\* the snapshot was before.
C1_LoginReplacesSnapshot ==
    SucceededWithUser("login") => currentUser = last.resp.user /\ isAuthenticated

C1_Witness ==
    /\ SucceededWithUser("login")
    /\ currentUser = last.resp.user
    /\ isAuthenticated

\* C2: when logout receives a payload with success=true, currentUser is null
\* and isAuthenticated, isAdmin and isStaff are false once logout has resolved.
C2_LogoutClearsSnapshot ==
    (StoreStep("logout") /\ last.resp.kind = "data" /\ last.resp.success)
        => currentUser = Null /\ ~isAuthenticated /\ ~isAdmin /\ ~isStaff

C2_Witness ==
    /\ StoreStep("logout")
    /\ last.resp.kind = "data"
    /\ last.resp.success
    /\ currentUser = Null

\* the me() query that has just been answered, by the guard's await or after
\* its navigation was superseded
MeStep == StoreStep("me") \/ (GuardStep /\ last.awaited)

\* me() failed: the promise rejected, the client reported an error, or the
\* data holds no me
MeFailed(r) == r.kind \in {"throw", "error"} \/ (r.kind = "data" /\ ~Truthy(r.me))

\* C3: when fetchCurrentUser fails in any way (client error, exception, null
\* or absent me), currentUser is null afterwards.
C3_MeFailureClearsSnapshot ==
    (MeStep /\ MeFailed(last.resp)) => currentUser = Null

C3_Witness ==
    /\ MeStep
    /\ last.resp.kind = "error"
    /\ Truthy(last.resp.me)
    /\ currentUser = Null

\* C4 as claimed: when register receives a payload with success=true and a
\* user, currentUser is replaced by that user.
C4_RegisterReplacesSnapshot ==
    SucceededWithUser("register") => currentUser = last.resp.user

\* C4 as the code has it: register leaves currentUser as it was, also when
\* the payload has success=true and a user.
C4_RegisterLeavesSnapshot ==
    [][(last'.kind = "store" /\ last'.op = "register") => currentUser' = currentUser]_vars

C4_Witness ==
    /\ SucceededWithUser("register")
    /\ currentUser # last.resp.user

\* the user objects a response can carry
UserSnapshots ==
    {Select(su, fields) : su \in ServerUsers,
        fields \in {LOGIN_MUTATION, REGISTER_MUTATION, ME_QUERY, UPDATE_USER_MUTATION}}

\* C5: in every reachable state isAuthenticated is true exactly when
\* currentUser is not null, that is, when a user's snapshot is cached:
\* currentUser is never undefined.
C5_AuthenticatedIffSnapshot ==
    /\ isAuthenticated <=> currentUser # Null
    /\ isAuthenticated <=> currentUser \in UserSnapshots

C5_Witness ==
    /\ isAuthenticated
    /\ StoreStep("login")
    /\ last.resp.kind = "data"
    /\ last.resp.success
    /\ last.resp.user = Absent

\* the step that has just run cached the user of its response
CachedByLogin == SucceededWithUser("login")
CachedByMe == MeStep /\ ~MeFailed(last.resp)

\* C6 as claimed: for every snapshot cached by login or fetchCurrentUser,
\* isAdmin is the server's isSuperuser flag of that user and isStaff is the
\* server's isStaff flag.
C6_RoleFlagsMirrorServer ==
    (CachedByLogin \/ CachedByMe)
        => /\ isAdmin = last.resp.origin.isSuperuser
           /\ isStaff = last.resp.origin.isStaff

\* a step in which the guard issues a me() query
IssuesMe ==
    /\ nav'.pc = "awaitMe"
    /\ nav.pc # "awaitMe" \/ pending'["me"] > pending["me"]

\* C7: a guard that runs with no snapshot and isLoading false issues me() and
\* decides only when me() has answered: a decision made without awaiting me()
\* had a snapshot or isLoading set; while a check stays outstanding no route
\* is resolved; and from a state with no snapshot and isLoading false a route
\* is resolved only by a guard that has awaited me().
C7_GuardAwaitsMe ==
    /\ []((GuardStep /\ ~last.awaited) => (Truthy(currentUser) \/ isLoading))
    /\ [][(nav.pc = "awaitMe" /\ nav'.pc = "awaitMe") => route' = route]_vars
    /\ [][(route' # route /\ ~Truthy(currentUser) /\ ~isLoading)
            => (last'.kind = "guard" /\ last'.awaited /\ last'.to = route')]_vars

C7_Witness ==
    /\ GuardStep
    /\ last.awaited
    /\ last.decision = "next"
    /\ route = last.to

\* C8 as claimed: once a me() check has resolved, no navigation issues
\* another me() until a login or logout changes the snapshot.
C8_NoRequeryOnceResolved ==
    [][resolved => ~IssuesMe]_vars

\* C8 as the code has it: while a snapshot is cached no navigation issues
\* me(); with no snapshot and isLoading false the guard awaits me() again,
\* also when an earlier me() resolved the visitor as unauthenticated.
C8_RequeryUnlessCached ==
    [][/\ Truthy(currentUser) => ~IssuesMe
       /\ (~Truthy(currentUser) /\ ~isLoading)
            => ~(last'.kind = "guard" /\ ~last'.awaited)]_vars

C8_Witness ==
    /\ resolved
    /\ currentUser = Null
    /\ nav.pc = "awaitMe"
    /\ nav.to = "login"
    /\ pending["me"] = 0
    /\ last = NoEvent

\* C9: the guard never admits a navigation to a requiresAuth route when
\* isAuthenticated is false at decision time: it redirects it to login.
C9_RequiresAuthRedirectsToLogin ==
    (GuardStep /\ "requiresAuth" \in Meta(last.to) /\ ~isAuthenticated)
        => /\ last.decision = "login"
           /\ nav = [pc |-> "redirect", to |-> "login"]

C9_Witness ==
    /\ GuardStep
    /\ last.to = "users"
    /\ ~isAuthenticated
    /\ last.decision = "login"

\* C10 as claimed: the guard admits a navigation to users exactly when the
\* cached user is authenticated with isStaff=true, and redirects an
\* authenticated user with isStaff=false to dashboard.
C10_UsersRouteRequiresStaff ==
    (GuardStep /\ last.to = "users")
        => /\ last.decision = "next" <=> (isAuthenticated /\ isStaff)
           /\ (isAuthenticated /\ ~isStaff) => last.decision = "dashboard"

\* requests in flight that a form's submit started (under SpecViews every
\* login comes from the login form, every register from the create-user
\* form, every updateUser from the edit dialog)
Outstanding(form) ==
    CASE form = "login form" -> pending["login"]
      [] form = "create-user form" -> pending["register"]
      [] form = "edit-user dialog" -> pending["updateUser"]

Forms == {"login form", "create-user form", "edit-user dialog"}

\* C11: for each form (login form, create-user form, edit-user dialog) at most
\* one request is outstanding at any time: while one submission is in flight
\* a second submission of the same form cannot start
C11_OneRequestPerForm == \A form \in Forms : Outstanding(form) <= 1

\* the client reported a transport error, or the promise rejected
TransportFailure(r) == r.kind \in {"error", "throw"}

\* handling the response throws: login and logout read a field of a payload
\* that is undefined
HandlingThrows(op, r) == r.kind = "nodata" /\ op \in {"login", "logout"}

\* C12: login, register, logout and updateUser never reject: when the GraphQL
\* client reports a transport error or an exception is thrown while the
\* response is handled, the action returns a result with success=false and
\* a message
C12_FailuresBecomeResults ==
    \A op \in LoadingOps :
        (StoreStep(op) /\ (TransportFailure(last.resp) \/ HandlingThrows(op, last.resp)))
            => /\ last.ret # Absent
               /\ DOMAIN last.ret = {"success", "message"}
               /\ last.ret.success = FALSE

\* updateUser has returned a result for a request whose promise rejected
C12_Witness ==
    /\ StoreStep("updateUser")
    /\ last.resp.kind = "throw"
    /\ last.ret # Absent
    /\ last.ret.success = FALSE

\* the server has answered the request of the step that has just run
Served(op) == reply.op = op /\ reply.resp.kind = "data"

\* the result carries a user: the field is there and is an object
HasUser(ret) == "user" \in DOMAIN ret /\ Truthy(ret.user)

\* C13: a result that login, register or updateUser returns to its caller with
\* success=false carries no user; a user is present only in results with
\* success=true
C13_FailureCarriesNoUser ==
    (reply.op \in {"login", "register", "updateUser"} /\ reply.ret # Absent)
        => /\ reply.ret.success = FALSE => ~HasUser(reply.ret)
           /\ HasUser(reply.ret) => reply.ret.success = TRUE

\* login has returned the server's payload of a refused login
C13_Witness ==
    /\ Served("login")
    /\ reply.ret = Payload(reply.resp)
    /\ reply.ret.success = FALSE
    /\ ~HasUser(reply.ret)

\* C14: for every user with isActive=true, a login with that user's username
\* and the correct password succeeds and binds the session to that user, and
\* a me() issued right after it on that session returns that same user
C14_LoginEstablishesSession ==
    \A id \in AccountIds :
        (/\ Served("login")
         /\ reply.username = id
         /\ reply.password = "correct"
         /\ Exists(id)
         /\ accounts[id].isActive)
            => /\ reply.resp.success
               /\ reply.resp.user = Select(Record(id), LOGIN_MUTATION)
               /\ session = id
               /\ MeAnswer.me = Select(Record(id), ME_QUERY)

\* an active user has logged in on a browser that held no session of theirs
C14_Witness ==
    /\ Served("login")
    /\ reply.resp.success
    /\ reply.caller # reply.username
    /\ session = reply.username
    /\ MeAnswer.me.id = reply.username

\* C15: logout is idempotent: it answers success=true whether or not a session
\* is active, and after a logout (the first or a repeated one) me() on that
\* session returns no user
C15_LogoutIdempotent ==
    Served("logout")
        => /\ reply.resp.success
           /\ reply.ret.success
           /\ session = NoSession
           /\ MeAnswer.me = Null

\* a logout on a browser that held no session has answered success
C15_Witness ==
    /\ Served("logout")
    /\ reply.caller = NoSession
    /\ reply.resp.success
    /\ MeAnswer.me = Null

\* C16: a login with an existing username and a wrong password gets exactly
\* the answer (success=false, same message, no session created) of a login
\* with a username that does not exist, whatever its password
C16_NoUsernameEnumeration ==
    (/\ Served("login")
     /\ Exists(reply.username)
     /\ reply.password = "wrong")
        => /\ reply.resp.success = FALSE
           /\ session = reply.caller
           /\ \A username \in Usernames, password \in Passwords :
                 ~Exists(username)
                    => /\ LoginOutcome(username, password).resp = reply.resp
                       /\ LoginOutcome(username, password).session = session

\* an existing, active user's login with a wrong password has been refused
C16_Witness ==
    /\ Served("login")
    /\ Exists(reply.username)
    /\ accounts[reply.username].isActive
    /\ reply.password = "wrong"
    /\ reply.resp.success = FALSE

\* C17: whoever calls and whatever the user table holds, the list allUsers
\* returns contains no record with isSuperuser=true
C17_AllUsersHidesSuperusers ==
    Served("allUsers")
        => /\ \A u \in reply.result : u.isSuperuser = FALSE
           /\ reply.resp.allUsers
                 = {Select(Record(id), ALL_USERS_QUERY) :
                       id \in {i \in DOMAIN accounts : ~accounts[i].isSuperuser}}
              \/ reply.resp.allUsers = {}

\* a staff caller has been answered a list with a user on it while the table
\* holds a superuser
C17_Witness ==
    /\ Served("allUsers")
    /\ reply.result # {}
    /\ \E id \in DOMAIN accounts : accounts[id].isSuperuser

\* the caller of the request that has just been answered is staff
CallerWasStaff == reply.caller # NoSession /\ accounts[reply.caller].isStaff

\* C18: a caller that is unauthenticated or has isStaff=false gets an empty
\* list from allUsers, never a user record
C18_AllUsersStaffOnly ==
    (Served("allUsers") /\ ~CallerWasStaff)
        => /\ reply.result = {}
           /\ reply.resp.allUsers = {}

\* a logged-in caller without isStaff has been answered the empty list
\* while the table holds users that are not superusers
C18_Witness ==
    /\ Served("allUsers")
    /\ reply.caller # NoSession
    /\ ~CallerWasStaff
    /\ \E id \in DOMAIN accounts : ~accounts[id].isSuperuser
    /\ reply.result = {}

\* C19: an updateUser whose target has isSuperuser=true is denied with
\* success=false whatever the caller's privilege, and changes no record
C19_SuperuserTargetDenied ==
    (/\ Served("updateUser")
     /\ reply.input.userId \in DOMAIN reply.before
     /\ reply.before[reply.input.userId].isSuperuser)
        => /\ reply.resp.success = FALSE
           /\ reply.ret.success = FALSE
           /\ accounts = reply.before

\* a caller that is staff and superuser has been denied the update of a
\* superuser
C19_Witness ==
    /\ Served("updateUser")
    /\ reply.caller # NoSession
    /\ accounts[reply.caller].isStaff
    /\ accounts[reply.caller].isSuperuser
    /\ reply.input.userId \in DOMAIN reply.before
    /\ reply.before[reply.input.userId].isSuperuser
    /\ "isActive" \in DOMAIN reply.input
    /\ reply.resp.success = FALSE

\* C20: no updateUser call turns a user with isSuperuser=false into one with
\* isSuperuser=true (so no sequence of them does), and the UpdateUserInput the
\* edit dialog's saveUser builds never contains the isSuperuser field
C20_NoPromotionToSuperuser ==
    Served("updateUser")
        => /\ \A id \in DOMAIN reply.before :
                 ~reply.before[id].isSuperuser => ~accounts[id].isSuperuser
           /\ reply.via = "saveUser" => "isSuperuser" \notin DOMAIN reply.input

\* an update that asked for isSuperuser=true has been applied, and its
\* target is no superuser
C20_Witness ==
    /\ Served("updateUser")
    /\ reply.resp.success
    /\ "isSuperuser" \in DOMAIN reply.input
    /\ reply.input.isSuperuser
    /\ ~accounts[reply.input.userId].isSuperuser

\* C22: the guard redirects every navigation to the guest-only login route to
\* dashboard when isAuthenticated is true at decision time, and admits it when
\* isAuthenticated is false.
C22_LoginRouteIsGuestOnly ==
    (GuardStep /\ last.to = "login")
        => /\ isAuthenticated
                => /\ last.decision = "dashboard"
                   /\ nav = [pc |-> "redirect", to |-> "dashboard"]
           /\ ~isAuthenticated
                => /\ last.decision = "next"
                   /\ route = "login"
                   /\ nav = Idle

C22_Witness ==
    /\ GuardStep
    /\ last.to = "login"
    /\ isAuthenticated
    /\ last.decision = "dashboard"
    /\ route # "login"

\* the route the guard redirects to in the present auth state
RedirectTarget == IF isAuthenticated THEN "dashboard" ELSE "login"

\* C23: for any target and any fixed auth state the guard reaches an admitted
\* route after at most one redirect, an unauthenticated visitor to login and
\* an authenticated one to dashboard: the guard admits the route it redirects
\* to, so there is no redirect loop between login, dashboard and users.
C23_AtMostOneRedirect ==
    \A to \in Targets :
        \/ GuardDecision(to) = "next"
        \/ /\ GuardDecision(to) = RedirectTarget
           /\ GuardDecision(RedirectTarget) = "next"

C23_Witness ==
    /\ GuardStep
    /\ last.to = "users"
    /\ last.decision = "dashboard"
    /\ isAuthenticated
    /\ GuardDecision("dashboard") = "next"

\* the response is a failure: a client error, an exception, no payload, or a
\* payload with success=false
CallFailed(r) == ~(r.kind = "data" /\ r.success)

\* C24: a login or logout that fails (client error, exception, or a payload
\* with success=false) leaves currentUser exactly as it was before the call.
C24_FailureLeavesSnapshot ==
    [][(/\ last'.kind = "store"
        /\ last'.op \in {"login", "logout"}
        /\ CallFailed(last'.resp)) => currentUser' = currentUser]_vars

C24_Witness ==
    /\ StoreStep("login")
    /\ last.resp.kind = "data"
    /\ ~last.resp.success
    /\ Truthy(currentUser)

\* C25: whenever the guard runs with an empty snapshot it awaits me() before
\* it decides, also when a store action is in flight: a decision made without
\* awaiting me() had a snapshot, and no navigation is redirected to login on
\* an empty snapshot that me() did not confirm.
C25_GuardConfirmsEmptySnapshot ==
    /\ (GuardStep /\ ~last.awaited) => Truthy(currentUser)
    /\ (GuardStep /\ last.decision = "login") => last.awaited

\* the login, register, logout and updateUser requests in flight
LoadingInFlight ==
    pending["login"] + pending["register"] + pending["logout"] + pending["updateUser"]

\* C26: isLoading is true whenever at least one login, register, logout or
\* updateUser request is in flight, also when two of them overlap, and false
\* when none is in flight.
C26_LoadingIffInFlight ==
    isLoading <=> LoadingInFlight > 0

\* the create-user form has just been submitted
CreateStep == last.kind = "view" /\ last.handler = "onSubmit"

LoggedOut ==
    /\ StoreStep("logout")
    /\ last.resp.kind = "data"
    /\ last.resp.success

\* C21: when logout is triggered from the dashboard or the user-management
\* view and the mutation succeeds, the session is destroyed and the snapshot
\* is cleared by the time the handler starts the navigation to login; and
\* once the session is destroyed the guard admits every navigation to login,
\* the handler's included: it is not redirected back to dashboard.
C21_LogoutEndsOnLogin ==
    /\ LoggedOut
        => /\ currentUser = Null
           /\ session = NoSession
           /\ nav = [pc |-> "redirect", to |-> "login"]
    /\ (GuardStep /\ last.to = "login" /\ session = NoSession)
        => /\ last.decision = "next"
           /\ route = "login"
           /\ nav = Idle

C21_Witness ==
    /\ LoggedOut
    /\ route = "dashboard"
    /\ currentUser = Null
    /\ session = NoSession
    /\ nav = [pc |-> "redirect", to |-> "login"]

====
